---- MODULE Spec2Model ----
(***************************************************************************)
(* Model of helpers/fetch-links (src/helpers/fetch-links/src/lib.rs):      *)
(* fetch_links_internal, extract_links and normalize_link_text.            *)
(*                                                                         *)
(* Strings are sequences of one-character strings.  The url crate calls    *)
(* (Url::parse, Url::join, Url::to_string) are modelled by what they do on *)
(* the alphabet the inputs below are built from: lower-case letters,       *)
(* digits, and the delimiters : / ? # . ! (no back-slash, white space,     *)
(* percent sign, @, upper case, or the file scheme).  On that alphabet     *)
(* percent-encoding and case folding leave every character as it is.       *)
(***************************************************************************)
EXTENDS Naturals, Integers, Sequences, FiniteSets, TLC

VARIABLES pc, url, base_url, html, links, result, requests, trace

vars == <<pc, url, base_url, html, links, result, requests, trace>>

----------------------------------------------------------------------------
(* Option<T> as a sequence of length 0 or 1.                               *)
None == <<>>
Some(x) == <<x>>
IsSome(o) == Len(o) = 1

Alpha == {"a","b","c","d","e","f","g","h","i","j","k","l","m",
          "n","o","p","q","r","s","t","u","v","w","x","y","z"}
Digit == {"0","1","2","3","4","5","6","7","8","9"}
SchemeChar == Alpha \cup Digit \cup {"+", "-", "."}

Drop(s, n) == SubSeq(s, n + 1, Len(s))
Take(s, n) == SubSeq(s, 1, n)

(* Index of the first character of s that is in S, Len(s)+1 when none is. *)
FirstIn(s, S) ==
  LET I == {i \in 1..Len(s) : s[i] \in S}
  IN  IF I = {} THEN Len(s) + 1 ELSE CHOOSE i \in I : \A j \in I : i <= j

FirstNotIn(s, S) ==
  LET I == {i \in 1..Len(s) : s[i] \notin S}
  IN  IF I = {} THEN Len(s) + 1 ELSE CHOOSE i \in I : \A j \in I : i <= j

RECURSIVE Concat(_)
Concat(ss) == IF ss = <<>> THEN <<>> ELSE Head(ss) \o Concat(Tail(ss))

DigitValue(c) == CHOOSE n \in 0..9 : <<"0","1","2","3","4","5","6","7","8","9">>[n + 1] = c

RECURSIVE StrToNat(_)
StrToNat(s) ==
  IF s = <<>> THEN 0
  ELSE StrToNat(Take(s, Len(s) - 1)) * 10 + DigitValue(s[Len(s)])

RECURSIVE NatToStr(_)
NatToStr(n) ==
  LET d == <<"0","1","2","3","4","5","6","7","8","9">>[(n % 10) + 1]
  IN  IF n < 10 THEN <<d>> ELSE Append(NatToStr(n \div 10), d)

----------------------------------------------------------------------------
(* url::Url.  path is the list of path segments (serialized "/seg" each);  *)
(* a cannot-be-a-base URL keeps its opaque path as the single element.     *)
NoUrl == [scheme |-> <<>>, host |-> None, port |-> None, path |-> <<>>,
          cannot_be_a_base |-> FALSE, query |-> None, fragment |-> None]
ParseErr == [ok |-> FALSE, url |-> NoUrl]
ParseOk(u) == [ok |-> TRUE, url |-> u]

SpecialSchemes == { <<"h","t","t","p">>, <<"h","t","t","p","s">>,
                    <<"w","s">>, <<"w","s","s">>, <<"f","t","p">> }
IsSpecial(scheme) == scheme \in SpecialSchemes

default_port(scheme) ==
  IF scheme \in { <<"h","t","t","p">>, <<"w","s">> } THEN Some(80)
  ELSE IF scheme \in { <<"h","t","t","p","s">>, <<"w","s","s">> } THEN Some(443)
  ELSE IF scheme = <<"f","t","p">> THEN Some(21)
  ELSE None

(* Parser::parse_scheme: ALPHA *( ALPHA / DIGIT / "+" / "-" / "." ) ":"    *)
parse_scheme(input) ==
  IF input = <<>> \/ input[1] \notin Alpha
  THEN [ok |-> FALSE, scheme |-> <<>>, rest |-> <<>>]
  ELSE LET k == FirstNotIn(input, SchemeChar)
       IN  IF k <= Len(input) /\ input[k] = ":"
           THEN [ok |-> TRUE, scheme |-> Take(input, k - 1), rest |-> Drop(input, k)]
           ELSE [ok |-> FALSE, scheme |-> <<>>, rest |-> <<>>]

(* The input cut at the first "#" (fragment) and, before it, at the first  *)
(* "?" (query): main is what is left for authority and path.               *)
split_query_fragment(input) ==
  LET h      == FirstIn(input, {"#"})
      before == Take(input, h - 1)
      q      == FirstIn(before, {"?"})
  IN  [main     |-> Take(before, q - 1),
       query    |-> IF q <= Len(before) THEN Some(Drop(before, q)) ELSE None,
       fragment |-> IF h <= Len(input) THEN Some(Drop(input, h)) ELSE None]

(* Parser::shorten_path / pop_path: drop the last segment, if any.         *)
shorten_path(path) == IF path = <<>> THEN path ELSE Take(path, Len(path) - 1)

DotDot == <<".", ".">>
Dot == <<".">>

(* Parser::parse_path: input is the path text (no "?" or "#"), read one    *)
(* segment at a time; ".." pops, "." is dropped, and either one as the     *)
(* last segment leaves a trailing empty segment.                           *)
RECURSIVE parse_path(_, _)
parse_path(path, input) ==
  LET k   == FirstIn(input, {"/"})
      seg == Take(input, k - 1)
      ends_with_slash == k <= Len(input)
      np  == IF seg = DotDot
             THEN IF ends_with_slash THEN shorten_path(path)
                  ELSE Append(shorten_path(path), <<>>)
             ELSE IF seg = Dot
             THEN IF ends_with_slash THEN path ELSE Append(path, <<>>)
             ELSE Append(path, seg)
  IN  IF ends_with_slash THEN parse_path(np, Drop(input, k)) ELSE np

count_slashes(input) == FirstNotIn(input, {"/"}) - 1

(* Parser::after_double_slash: authority (host, optional port), then the   *)
(* path, query and fragment.                                               *)
after_double_slash(scheme, input) ==
  LET p        == split_query_fragment(input)
      a        == FirstIn(p.main, {"/"})
      auth     == Take(p.main, a - 1)
      rest     == Drop(p.main, a - 1)
      c        == FirstIn(auth, {":"})
      hoststr  == Take(auth, c - 1)
      has_port == c <= Len(auth)
      portstr  == Drop(auth, c)
      special  == IsSpecial(scheme)
      portval  == StrToNat(portstr)
  IN  IF hoststr = <<>> /\ (special \/ has_port) THEN ParseErr
      ELSE IF has_port /\ \E i \in 1..Len(portstr) : portstr[i] \notin Digit THEN ParseErr
      ELSE IF has_port /\ portval > 65535 THEN ParseErr
      ELSE ParseOk(
        [scheme |-> scheme,
         host |-> Some(hoststr),
         port |-> IF ~has_port \/ portstr = <<>> \/ Some(portval) = default_port(scheme)
                  THEN None ELSE Some(portval),
         path |-> IF rest = <<>>
                  THEN IF special THEN << <<>> >> ELSE <<>>
                  ELSE parse_path(<<>>, Drop(rest, 1)),
         cannot_be_a_base |-> FALSE,
         query |-> p.query,
         fragment |-> p.fragment])

(* Parser::fragment_only: the base with its fragment replaced.             *)
fragment_only(base, input) ==
  ParseOk([base EXCEPT !.fragment = Some(Drop(input, 1))])

(* Variant of parse_relative that appends a relative path to the whole     *)
(* base path, keeping the base's last segment.                             *)
parse_relative_keeps_last_segment(input, base) ==
  LET p == split_query_fragment(input)
  IN  IF input = <<>> THEN ParseOk([base EXCEPT !.fragment = None])
      ELSE IF input[1] = "?"
      THEN ParseOk([base EXCEPT !.query = p.query, !.fragment = p.fragment])
      ELSE IF input[1] = "#" THEN fragment_only(base, input)
      ELSE IF input[1] = "/"
      THEN IF count_slashes(input) >= 2
           THEN after_double_slash(base.scheme, Drop(input, 2))
           ELSE ParseOk([base EXCEPT !.path = parse_path(<<>>, Drop(p.main, 1)),
                                     !.query = p.query,
                                     !.fragment = p.fragment])
      ELSE ParseOk([base EXCEPT !.path = parse_path(base.path, p.main),
                                !.query = p.query,
                                !.fragment = p.fragment])

(* Parser::parse_relative: the relative state, against a base that can be  *)
(* a base.                                                                 *)
parse_relative(input, base) ==
  LET p == split_query_fragment(input)
  IN  IF input = <<>> THEN ParseOk([base EXCEPT !.fragment = None])
      ELSE IF input[1] = "?"
      THEN ParseOk([base EXCEPT !.query = p.query, !.fragment = p.fragment])
      ELSE IF input[1] = "#" THEN fragment_only(base, input)
      ELSE IF input[1] = "/"
      THEN IF count_slashes(input) >= 2
           THEN after_double_slash(base.scheme, Drop(input, 2))
           ELSE ParseOk([base EXCEPT !.path = parse_path(<<>>, Drop(p.main, 1)),
                                     !.query = p.query,
                                     !.fragment = p.fragment])
      ELSE ParseOk([base EXCEPT !.path = parse_path(shorten_path(base.path), p.main),
                                !.query = p.query,
                                !.fragment = p.fragment])

(* Parser::parse_non_special: "//" starts an authority, "/" a path, and    *)
(* anything else is an opaque (cannot-be-a-base) path.                     *)
parse_non_special(scheme, input) ==
  LET p == split_query_fragment(input)
  IN  IF count_slashes(input) >= 2 THEN after_double_slash(scheme, Drop(input, 2))
      ELSE ParseOk(
        [scheme |-> scheme, host |-> None, port |-> None,
         path |-> IF count_slashes(input) = 1
                  THEN parse_path(<<>>, Drop(p.main, 1)) ELSE <<p.main>>,
         cannot_be_a_base |-> count_slashes(input) # 1,
         query |-> p.query,
         fragment |-> p.fragment])

(* Parser::parse_with_scheme.  A special scheme equal to the base's, with  *)
(* fewer than two slashes after it, is resolved as a relative reference.   *)
parse_with_scheme(scheme, input, base) ==
  IF IsSpecial(scheme)
  THEN IF IsSome(base) /\ count_slashes(input) < 2 /\ base[1].scheme = scheme
       THEN parse_relative(input, base[1])
       ELSE after_double_slash(scheme, Drop(input, count_slashes(input)))
  ELSE parse_non_special(scheme, input)

(* Parser::parse_url with an optional base.                                *)
parse_url(input, base) ==
  LET s == parse_scheme(input)
  IN  IF s.ok THEN parse_with_scheme(s.scheme, s.rest, base)
      ELSE IF ~IsSome(base) THEN ParseErr
      ELSE IF input # <<>> /\ input[1] = "#" THEN fragment_only(base[1], input)
      ELSE IF base[1].cannot_be_a_base THEN ParseErr
      ELSE parse_relative(input, base[1])

(* Url::parse(input) and base.join(input).                                 *)
UrlParse(input) == parse_url(input, None)
UrlJoin(base, input) == parse_url(input, Some(base))

(* Url::to_string: the serialization.                                      *)
to_string(u) ==
  u.scheme \o <<":">>
  \o (IF IsSome(u.host)
      THEN <<"/", "/">> \o u.host[1]
           \o (IF IsSome(u.port) THEN <<":">> \o NatToStr(u.port[1]) ELSE <<>>)
      ELSE <<>>)
  \o (IF u.cannot_be_a_base THEN u.path[1]
      ELSE Concat([i \in 1..Len(u.path) |-> <<"/">> \o u.path[i]]))
  \o (IF IsSome(u.query) THEN <<"?">> \o u.query[1] ELSE <<>>)
  \o (IF IsSome(u.fragment) THEN <<"#">> \o u.fragment[1] ELSE <<>>)

----------------------------------------------------------------------------
(* The parsed document.  Html::parse_document is not modelled: html holds  *)
(* the elements of the tree in document order, each with its tag, its href *)
(* attribute (None when absent) and the text nodes below it.               *)

WhiteSpace == {" ", "\t", "\n"}

(* str::split_whitespace: the maximal runs of non-white-space characters.  *)
RECURSIVE split_whitespace(_)
split_whitespace(s) ==
  LET r == Drop(s, FirstNotIn(s, WhiteSpace) - 1)
      b == FirstIn(r, WhiteSpace)
  IN  IF r = <<>> THEN <<>>
      ELSE <<Take(r, b - 1)>> \o split_whitespace(Drop(r, b - 1))

(* [T]::join(sep).                                                         *)
RECURSIVE join(_, _)
join(tokens, sep) ==
  IF tokens = <<>> THEN <<>>
  ELSE IF Len(tokens) = 1 THEN tokens[1]
  ELSE tokens[1] \o sep \o join(Tail(tokens), sep)

(* Variant of normalize_link_text that only trims: text.trim().            *)
normalize_link_text_trim_only(text) ==
  LET first == FirstNotIn(text, WhiteSpace)
      I     == {i \in 1..Len(text) : text[i] \notin WhiteSpace}
      last  == IF I = {} THEN 0 ELSE CHOOSE i \in I : \A j \in I : j <= i
  IN  SubSeq(text, first, last)

normalize_link_text(text) == join(split_whitespace(text), <<" ">>)

(* document.select("a[href]"): the anchors that carry an href, in document *)
(* order.                                                                  *)
IsAnchorWithHref(e) == e.tag = "a" /\ IsSome(e.href)
select(document) == SelectSeq(document, IsAnchorWithHref)

(* Variant of resolve_href without the join: Url::parse(href).ok().        *)
resolve_href_parse_only(href, base) == UrlParse(href)

(* Variant of resolve_href that joins first: base_url.join(href).ok()      *)
(* .or_else(|| Url::parse(href).ok()).                                     *)
resolve_href_join_first(href, base) ==
  IF UrlJoin(base, href).ok THEN UrlJoin(base, href) ELSE UrlParse(href)

(* Url::parse(href).ok().or_else(|| base_url.join(href).ok())              *)
resolve_href(href, base) ==
  LET abs == UrlParse(href)
  IN  IF abs.ok THEN abs ELSE UrlJoin(base, href)

(* Variant of the closure that keeps the href as written:                  *)
(* url: href.to_string().                                                  *)
some_link_info_raw_href(r, element) ==
  IF ~r.ok THEN None
  ELSE Some([url  |-> element.href[1],
             text |-> normalize_link_text(Concat(element.text))])

(* The closure given to filter_map: Some(LinkInfo) or None.                *)
some_link_info(r, element) ==
  IF ~r.ok THEN None
  ELSE Some([url  |-> to_string(r.url),
             text |-> normalize_link_text(Concat(element.text))])

link_info(element, base) ==
  IF ~IsSome(element.href) THEN None
  ELSE some_link_info(resolve_href(element.href[1], base), element)

(* Variant of filter_map that puts each new entry first.                   *)
RECURSIVE filter_map_reversed(_, _)
filter_map_reversed(elements, base) ==
  IF elements = <<>> THEN <<>>
  ELSE filter_map_reversed(Tail(elements), base) \o link_info(Head(elements), base)

(* Variant of filter_map that stops at the first None: map_while.          *)
RECURSIVE filter_map_until_none(_, _)
filter_map_until_none(elements, base) ==
  IF elements = <<>> \/ link_info(Head(elements), base) = None THEN <<>>
  ELSE link_info(Head(elements), base) \o filter_map_until_none(Tail(elements), base)

(* Iterator::filter_map(..).collect(): the Some results, in order.         *)
RECURSIVE filter_map(_, _)
filter_map(elements, base) ==
  IF elements = <<>> THEN <<>>
  ELSE link_info(Head(elements), base) \o filter_map(Tail(elements), base)

(* Variant of extract_links that selects "a" and reads a missing href as   *)
(* the empty string: attr("href").unwrap_or("").                           *)
IsAnchor(e) == e.tag = "a"
href_or_empty(e) == [e EXCEPT !.href = IF IsSome(e.href) THEN e.href ELSE Some(<<>>)]
extract_links_every_anchor(document, base) ==
  filter_map([i \in 1..Len(SelectSeq(document, IsAnchor)) |->
                href_or_empty(SelectSeq(document, IsAnchor)[i])], base)

extract_links(document, base) == filter_map(select(document), base)

----------------------------------------------------------------------------
(* Inputs.                                                                 *)

MaxAnchors == 3
MaxTextLen == 3

HTTP == <<"h","t","t","p">>
HTTPS == <<"h","t","t","p","s">>

\* "https://example.com", "https://example.com/page",
\* "https://example.com/a/b/", "http://h.x/d/e?k#g"
BASE_EXAMPLE == <<"h","t","t","p","s",":","/","/","e","x","a","m","p","l","e",".","c","o","m">>
BASE_PAGE == BASE_EXAMPLE \o <<"/","p","a","g","e">>
BASE_DIR == BASE_EXAMPLE \o <<"/","a","/","b","/">>
BASE_HTTP == <<"h","t","t","p",":","/","/","h",".","x","/","d","/","e","?","k","#","g">>
BaseStrings == {BASE_EXAMPLE, BASE_PAGE, BASE_DIR, BASE_HTTP}
Bases == {UrlParse(b).url : b \in BaseStrings}

\* "ht!tp://" and "https://"
BAD_SCHEME_HREF == <<"h","t","!","t","p",":","/","/">>
EMPTY_HOST_HREF == <<"h","t","t","p","s",":","/","/">>
HREF_ONE == <<"/","o","n","e">>
HREF_GOOGLE == <<"h","t","t","p","s",":","/","/","g","o","o","g","l","e",".","c","o","m">>
HREF_SECTION == <<"#","s","e","c","t","i","o","n">>

RelPaths ==
  { <<>>,
    <<"a">>,
    <<"a","/","b">>,
    <<".",".">>,
    <<".",".","/","a">>,
    <<".","/","a">>,
    <<"a","/",".",".","/","b">>,
    <<"a","/",".">>,
    <<"a","/","/","b">> }

NamePaths ==
  { <<>>,
    <<"a">>,
    <<"a","/","b">>,
    <<"a","/",".",".","/","b">>,
    <<"a","/",".">>,
    <<"a","/",".",".">> }

HostPaths ==
  { <<>>,
    <<"h",".","x">>,
    <<"h",".","x","/">>,
    <<"h",".","x","/","a">>,
    <<"h",".","x","/","a","/",".",".","/","b">>,
    <<"h",".","x",":","8","0">>,
    <<"h",".","x",":","8","/","a">>,
    <<"h",".","x",":","4","4","3">>,
    <<"h",".","x",":","p">>,
    <<"h",".","x",":">> }

Tails ==
  { <<>>,
    <<"?","q">>,
    <<"#","f">>,
    <<"?","q","#","f">>,
    <<"?">>,
    <<"#">> }

(* The href values of the single-anchor documents: relative references of  *)
(* every form, absolute http(s) URLs, scheme-only forms of a special, a    *)
(* non-special and an ill-formed scheme.                                   *)
Hrefs ==
  {l \o b \o t : l \in {<<>>, <<"/">>}, b \in RelPaths, t \in Tails}
  \cup {<<"/","/">> \o b \o t : b \in HostPaths, t \in Tails}
  \cup {p \o <<":","/","/">> \o b \o t : p \in {HTTP, HTTPS}, b \in HostPaths, t \in Tails}
  \cup {HTTP \o <<":">> \o l \o b \o t : l \in {<<>>, <<"/">>}, b \in NamePaths, t \in Tails}
  \cup {p \o <<":">> \o l \o b \o t :
          p \in {<<"x">>, <<"h","t","!","t","p">>}, l \in {<<>>, <<"/">>},
          b \in RelPaths, t \in Tails}
  \cup {BAD_SCHEME_HREF, HREF_ONE, HREF_GOOGLE, HREF_SECTION}

Anchor(href, text) == [tag |-> "a", href |-> href, text |-> text]

HrefDocuments == { <<Anchor(Some(h), <<<<"L","i","n","k">>>>)>> : h \in Hrefs }

TextChars == {"a", "b", " ", "\t", "\n"}
\* "  Link \n Two  "
TEXT_LINK_TWO == <<" "," ","L","i","n","k"," ","\n"," ","T","w","o"," "," ">>
Texts ==
  UNION {[1..n -> TextChars] : n \in 0..MaxTextLen} \cup {TEXT_LINK_TWO}
TextDocuments ==
  { <<Anchor(Some(HREF_ONE), <<t>>)>> : t \in Texts }
  \cup { <<Anchor(Some(HREF_ONE), <<t, TEXT_LINK_TWO>>)>> : t \in Texts }

\* "No href"
TEXT_NO_HREF == <<"N","o"," ","h","r","e","f">>
(* The elements the multi-element documents are built from.                *)
ElementPool ==
  { Anchor(Some(HREF_ONE), << <<"L","i","n","k">>, <<" ","1">> >>),
    Anchor(Some(HREF_GOOGLE), << <<"L","i","n","k"," ","2">> >>),
    Anchor(None, << TEXT_NO_HREF >>),
    Anchor(Some(EMPTY_HOST_HREF), << <<"b","a","d">> >>),
    Anchor(Some(BAD_SCHEME_HREF), << >>),
    Anchor(Some(HREF_SECTION), << <<" ","J","u","m","p","\n">> >>),
    [tag |-> "link", href |-> Some(<<"/","c","s","s">>), text |-> << >>] }
Documents == UNION {[1..n -> ElementPool] : n \in 0..MaxAnchors}

\* The strings fetch_links_internal is called with.
UrlInputs ==
  { BASE_EXAMPLE, BASE_PAGE, BASE_HTTP,
    <<>>, HREF_ONE, BAD_SCHEME_HREF, EMPTY_HOST_HREF,
    <<"x",":","a">>, <<"f","t","p",":","/","/","h",".","x","/","a">> }

Statuses == {200, 404, 500}

----------------------------------------------------------------------------
(* fetch_links_internal.  The result is Ok(links) or Err(message); of the  *)
(* message only the prefix the code writes is kept.                        *)

(* What the call has done so far, in order.                                *)
Event(name) == [ev |-> name, status |-> 0]
Response(status) == [ev |-> "response", status |-> status]

Idle == [set |-> FALSE, ok |-> FALSE, links |-> <<>>, err |-> ""]
Ok(l) == [set |-> TRUE, ok |-> TRUE, links |-> l, err |-> ""]
Err(m) == [set |-> TRUE, ok |-> FALSE, links |-> <<>>, err |-> m]

(* reqwest sends a request only to an http or https URL with a host; for   *)
(* any other URL send() returns an error without any request.              *)
can_send(u) == u.scheme \in {HTTP, HTTPS} /\ IsSome(u.host)

Init ==
  /\ pc = "start"
  /\ url \in UrlInputs
  /\ base_url = NoUrl
  /\ html = <<>>
  /\ links = <<>>
  /\ result = Idle
  /\ requests = 0
  /\ trace = <<>>

(* Variant of the first step that leaves the check of the URL to the       *)
(* client: Url::parse(&url).unwrap_or(..), no early return.                *)
ParseUrl_unchecked ==
  /\ pc = "start"
  /\ base_url' = UrlParse(url).url
  /\ pc' = "send"
  /\ result' = result
  /\ trace' = Append(trace, Event("parse"))
  /\ UNCHANGED <<url, html, links, requests>>

(* let base_url = Url::parse(&url).map_err(..)?;                           *)
ParseUrl ==
  /\ pc = "start"
  /\ LET r == UrlParse(url)
     IN  IF r.ok
         THEN /\ base_url' = r.url
              /\ pc' = "send"
              /\ result' = result
         ELSE /\ base_url' = base_url
              /\ pc' = "done"
              /\ result' = Err("Invalid URL: ")
  /\ trace' = Append(trace, Event("parse"))
  /\ UNCHANGED <<url, html, links, requests>>

(* client.get(&url).send(): the request goes out.                          *)
SendRequest ==
  /\ pc = "send"
  /\ can_send(base_url)
  /\ requests' = requests + 1
  /\ trace' = Append(trace, Event("send"))
  /\ pc' = "await_send"
  /\ UNCHANGED <<url, base_url, html, links, result>>

(* send() fails before any request: Err(e) => "Failed to fetch URL".       *)
SendRejected ==
  /\ pc = "send"
  /\ ~can_send(base_url)
  /\ result' = Err("Failed to fetch URL: ")
  /\ pc' = "done"
  /\ UNCHANGED <<url, base_url, html, links, requests, trace>>

(* .send().await is Ok(response), whatever the status.                     *)
SendOk ==
  /\ pc = "await_send"
  /\ \E status \in Statuses : trace' = Append(trace, Response(status))
  /\ pc' = "await_text"
  /\ UNCHANGED <<url, base_url, html, links, result, requests>>

(* .send().await is Err(e).                                                *)
SendFailed ==
  /\ pc = "await_send"
  /\ result' = Err("Failed to fetch URL: ")
  /\ pc' = "done"
  /\ UNCHANGED <<url, base_url, html, links, requests, trace>>

(* Variant of the last step that rejects error statuses:                   *)
(* response.error_for_status()?.text().                                    *)
TextOk_error_for_status ==
  /\ pc = "await_text"
  /\ IF trace[Len(trace)].status >= 400
     THEN /\ result' = Err("Failed to fetch URL: ")
          /\ UNCHANGED <<html, links, trace>>
     ELSE /\ \E document \in Documents :
               /\ html' = document
               /\ links' = extract_links(document, base_url)
          /\ result' = Ok(links')
          /\ trace' = trace \o <<Event("body"), Event("extract")>>
  /\ pc' = "done"
  /\ UNCHANGED <<url, base_url, requests>>

(* response.text().await is Ok(html): extract_links runs and the call      *)
(* returns Ok(links).                                                      *)
TextOk ==
  /\ pc = "await_text"
  /\ \E document \in Documents :
       /\ html' = document
       /\ links' = extract_links(document, base_url)
  /\ result' = Ok(links')
  /\ trace' = trace \o <<Event("body"), Event("extract")>>
  /\ pc' = "done"
  /\ UNCHANGED <<url, base_url, requests>>

(* response.text().await is Err(e).                                        *)
TextFailed ==
  /\ pc = "await_text"
  /\ result' = Err("Failed to read response body: ")
  /\ pc' = "done"
  /\ UNCHANGED <<url, base_url, html, links, requests, trace>>

Next ==
  \/ ParseUrl
  \/ SendRequest
  \/ SendRejected
  \/ SendOk
  \/ SendFailed
  \/ TextOk
  \/ TextFailed

Spec == Init /\ [][Next]_vars

----------------------------------------------------------------------------
(* extract_links called directly with a document and a parsed base, as the *)
(* unit tests call it.                                                     *)

InitExtract ==
  /\ pc = "test"
  /\ url = <<>>
  /\ \/ base_url \in Bases /\ html \in HrefDocuments
     \/ base_url = UrlParse(BASE_EXAMPLE).url /\ html \in TextDocuments
     \/ base_url \in {UrlParse(BASE_EXAMPLE).url, UrlParse(BASE_HTTP).url}
        /\ html \in Documents
  /\ links = <<>>
  /\ result = Idle
  /\ requests = 0
  /\ trace = <<>>

CallExtract ==
  /\ pc = "test"
  /\ links' = extract_links(html, base_url)
  /\ pc' = "returned"
  /\ UNCHANGED <<url, base_url, html, result, requests, trace>>

NextExtract == CallExtract

SpecExtract == InitExtract /\ [][NextExtract]_vars

----------------------------------------------------------------------------
(* Vocabulary of the properties.                                           *)

Href(e) == e.href[1]
ElementText(e) == Concat(e.text)

(* The element is an anchor with an href that parses or joins.             *)
Resolves(e, base) ==
  /\ e.tag = "a"
  /\ IsSome(e.href)
  /\ (UrlParse(Href(e)).ok \/ UrlJoin(base, Href(e)).ok)

(* The element is an anchor with an href that neither parses nor joins.    *)
Unresolvable(e, base) ==
  /\ e.tag = "a"
  /\ IsSome(e.href)
  /\ ~UrlParse(Href(e)).ok
  /\ ~UrlJoin(base, Href(e)).ok

Qualifying(document, base) ==
  {i \in 1..Len(document) : Resolves(document[i], base)}

(* The position, among the qualifying elements Q, of element i.            *)
Rank(Q, i) == Cardinality({j \in Q : j <= i})

RemoveAt(s, i) == SubSeq(s, 1, i - 1) \o SubSeq(s, i + 1, Len(s))

Returned == pc = "returned"

----------------------------------------------------------------------------
(* C1: the result of extract_links is exactly the anchors that carry an    *)
(* href that resolves, in document order: as many entries as there are     *)
(* such anchors (repeated links are kept), and the entry of the k-th such  *)
(* anchor is the k-th entry.                                               *)
C1_DocumentOrder ==
  Returned =>
    LET Q == Qualifying(html, base_url)
    IN  /\ Len(links) = Cardinality(Q)
        /\ \A i \in Q :
             /\ links[Rank(Q, i)].url =
                  to_string(resolve_href(Href(html[i]), base_url).url)
             /\ links[Rank(Q, i)].text =
                  normalize_link_text(ElementText(html[i]))
        /\ \A i, j \in Q : i < j => Rank(Q, i) < Rank(Q, j)

(* Three anchors, the first and the last the same link, all emitted.       *)
C1_Witness ==
  /\ Returned
  /\ Len(html) = 3
  /\ html[1] = html[3]
  /\ html[1] # html[2]
  /\ Len(links) = 3
  /\ links[1] = links[3]
  /\ links[1] # links[2]

(* C2: an anchor whose href neither parses nor joins contributes no entry  *)
(* and stops nothing: the result is the result for the document without    *)
(* that anchor.                                                            *)
C2_SilentSkip ==
  Returned =>
    \A i \in 1..Len(html) :
      Unresolvable(html[i], base_url) =>
        links = extract_links(RemoveAt(html, i), base_url)

(* An unresolvable anchor between two anchors that are both emitted.       *)
C2_Witness ==
  /\ Returned
  /\ Len(html) = 3
  /\ Resolves(html[1], base_url)
  /\ Unresolvable(html[2], base_url)
  /\ Resolves(html[3], base_url)
  /\ Len(links) = 2

(* The base without its last path segment, query and fragment.            *)
Authority(u) ==
  u.host[1] \o (IF IsSome(u.port) THEN <<":">> \o NatToStr(u.port[1]) ELSE <<>>)
PathString(u) == Concat([i \in 1..Len(u.path) |-> <<"/">> \o u.path[i]])
BaseDirectory(b) ==
  b.scheme \o <<":", "/", "/">> \o Authority(b)
  \o Concat([i \in 1..(Len(b.path) - 1) |-> <<"/">> \o b.path[i]]) \o <<"/">>

IsBadSchemeAnchor(e) == e.tag = "a" /\ e.href = Some(BAD_SCHEME_HREF)

\* "https://example.com/ht!tp://"
BAD_SCHEME_RESOLVED ==
  <<"h","t","t","p","s",":","/","/","e","x","a","m","p","l","e",".","c","o","m",
    "/","h","t","!","t","p",":","/","/">>

(* C3, as stated: with the base https://example.com an anchor whose href   *)
(* is "ht!tp://" fails both the direct parse and the join, and is skipped: *)
(* the result is that of the document without it.                          *)
C3_BadSchemeHrefSkipped ==
  (Returned /\ base_url = UrlParse(BASE_EXAMPLE).url) =>
    \A i \in 1..Len(html) :
      IsBadSchemeAnchor(html[i]) =>
        /\ ~UrlParse(BAD_SCHEME_HREF).ok
        /\ ~UrlJoin(base_url, BAD_SCHEME_HREF).ok
        /\ links = extract_links(RemoveAt(html, i), base_url)

(* C3, amended: "ht!tp://" fails only the direct parse; against the base   *)
(* it resolves as a relative path, so the anchor has an entry whose url is *)
(* the base's directory followed by "ht!tp://" (and                        *)
(* https://example.com/ht!tp:// with the base https://example.com), and    *)
(* the anchors after it are still emitted.                                 *)
C3_BadSchemeHrefResolves ==
  Returned =>
    \A i \in 1..Len(html) :
      IsBadSchemeAnchor(html[i]) =>
        LET Q == Qualifying(html, base_url)
        IN  /\ ~UrlParse(BAD_SCHEME_HREF).ok
            /\ UrlJoin(base_url, BAD_SCHEME_HREF).ok
            /\ i \in Q
            /\ Rank(Q, i) <= Len(links)
            /\ links[Rank(Q, i)].url = BaseDirectory(base_url) \o BAD_SCHEME_HREF
            /\ base_url = UrlParse(BASE_EXAMPLE).url =>
                 links[Rank(Q, i)].url = BAD_SCHEME_RESOLVED
            /\ \A j \in Q :
                 j > i =>
                   /\ Rank(Q, j) <= Len(links)
                   /\ links[Rank(Q, j)].url =
                        to_string(resolve_href(Href(html[j]), base_url).url)

(* "ht!tp://" first, a resolvable anchor after it, both emitted.           *)
C3_Witness ==
  /\ Returned
  /\ base_url = UrlParse(BASE_EXAMPLE).url
  /\ Len(html) = 2
  /\ IsBadSchemeAnchor(html[1])
  /\ Resolves(html[2], base_url)
  /\ ~IsBadSchemeAnchor(html[2])
  /\ Len(links) = 2
  /\ links[1].url = BAD_SCHEME_RESOLVED

(* C4: an anchor whose href parses on its own as an absolute URL is        *)
(* emitted with the serialization of that URL, and with the same url       *)
(* whatever the base.                                                      *)
ParsesAbsolute(e) == e.tag = "a" /\ IsSome(e.href) /\ UrlParse(Href(e)).ok

C4_AbsoluteIndependentOfBase ==
  Returned =>
    \A i \in 1..Len(html) :
      ParsesAbsolute(html[i]) =>
        LET Q == Qualifying(html, base_url)
        IN  /\ i \in Q
            /\ Rank(Q, i) <= Len(links)
            /\ links[Rank(Q, i)].url = to_string(UrlParse(Href(html[i])).url)
            /\ \A b2 \in Bases :
                 LET Q2 == Qualifying(html, b2)
                 IN  extract_links(html, b2)[Rank(Q2, i)].url = links[Rank(Q, i)].url

(* An absolute href of the base's own scheme, written without "//": the    *)
(* join alone would resolve it against the base.                           *)
C4_Witness ==
  /\ Returned
  /\ Len(html) = 1
  /\ ParsesAbsolute(html[1])
  /\ UrlJoin(base_url, Href(html[1])).ok
  /\ to_string(UrlJoin(base_url, Href(html[1])).url) # links[1].url
  /\ Len(links) = 1

----------------------------------------------------------------------------
(* RFC 3986, section 5.2: reference resolution, written from the RFC.      *)

StartsWith(s, prefix) ==
  Len(s) >= Len(prefix) /\ SubSeq(s, 1, Len(prefix)) = prefix

LastSlash(s) ==
  LET I == {i \in 1..Len(s) : s[i] = "/"}
  IN  IF I = {} THEN 0 ELSE CHOOSE i \in I : \A j \in I : j <= i

Rfc_RemoveLastSegment(out) ==
  IF LastSlash(out) = 0 THEN <<>> ELSE Take(out, LastSlash(out) - 1)

(* 5.2.4 Remove Dot Segments, steps 2A to 2E on (input, output).           *)
RECURSIVE Rfc_RemoveDotSegments(_, _)
Rfc_RemoveDotSegments(in, out) ==
  IF in = <<>> THEN out
  ELSE IF StartsWith(in, <<".", ".", "/">>) THEN Rfc_RemoveDotSegments(Drop(in, 3), out)
  ELSE IF StartsWith(in, <<".", "/">>) THEN Rfc_RemoveDotSegments(Drop(in, 2), out)
  ELSE IF StartsWith(in, <<"/", ".", "/">>) THEN Rfc_RemoveDotSegments(Drop(in, 2), out)
  ELSE IF in = <<"/", ".">> THEN Rfc_RemoveDotSegments(<<"/">>, out)
  ELSE IF StartsWith(in, <<"/", ".", ".", "/">>)
  THEN Rfc_RemoveDotSegments(Drop(in, 3), Rfc_RemoveLastSegment(out))
  ELSE IF in = <<"/", ".", ".">>
  THEN Rfc_RemoveDotSegments(<<"/">>, Rfc_RemoveLastSegment(out))
  ELSE IF in = <<".">> \/ in = <<".", ".">> THEN Rfc_RemoveDotSegments(<<>>, out)
  ELSE LET n == IF in[1] = "/" THEN FirstIn(Drop(in, 1), {"/"})
                ELSE FirstIn(in, {"/"}) - 1
       IN  Rfc_RemoveDotSegments(Drop(in, n), out \o Take(in, n))

(* Appendix B: the components of a reference without a scheme.             *)
Rfc_Reference(r) ==
  LET has_authority == StartsWith(r, <<"/", "/">>)
      after     == IF has_authority THEN Drop(r, 2) ELSE r
      auth_end  == IF has_authority THEN FirstIn(after, {"/", "?", "#"}) ELSE 1
      rest      == Drop(after, auth_end - 1)
      path_end  == FirstIn(rest, {"?", "#"})
      tail      == Drop(rest, path_end - 1)
      hash      == FirstIn(tail, {"#"})
  IN  [has_authority |-> has_authority,
       authority     |-> Take(after, auth_end - 1),
       path          |-> Take(rest, path_end - 1),
       has_query     |-> tail # <<>> /\ tail[1] = "?",
       query         |-> SubSeq(tail, 2, hash - 1),
       has_fragment  |-> hash <= Len(tail),
       fragment      |-> Drop(tail, hash)]

(* 6.2.3: an empty port or the scheme's default port is left out, and an   *)
(* empty path after an authority is "/".                                   *)
Rfc_NormalAuthority(scheme, authority) ==
  LET c == FirstIn(authority, {":"})
      port == Drop(authority, c)
  IN  IF port = <<>> \/ Some(StrToNat(port)) = default_port(scheme)
      THEN Take(authority, c - 1) ELSE authority

Rfc_NormalPath(path) == IF path = <<>> THEN <<"/">> ELSE path

(* 5.2.2 Transform References and 5.3 Component Recomposition, for a       *)
(* reference r without a scheme and a base with an authority.              *)
Rfc_Resolve(base, r) ==
  LET R == Rfc_Reference(r)
      base_path == PathString(base)
      merged == Take(base_path, LastSlash(base_path)) \o R.path
      authority == IF R.has_authority
                   THEN Rfc_NormalAuthority(base.scheme, R.authority)
                   ELSE Authority(base)
      path == IF R.has_authority THEN Rfc_RemoveDotSegments(R.path, <<>>)
              ELSE IF R.path = <<>> THEN base_path
              ELSE IF R.path[1] = "/" THEN Rfc_RemoveDotSegments(R.path, <<>>)
              ELSE Rfc_RemoveDotSegments(merged, <<>>)
      has_query == R.has_query
                   \/ (~R.has_authority /\ R.path = <<>> /\ IsSome(base.query))
      query == IF R.has_query THEN R.query ELSE base.query[1]
  IN  base.scheme \o <<":", "/", "/">> \o authority \o Rfc_NormalPath(path)
      \o (IF has_query THEN <<"?">> \o query ELSE <<>>)
      \o (IF R.has_fragment THEN <<"#">> \o R.fragment ELSE <<>>)

(* A relative reference: no ":" before the first "/", "?" or "#".          *)
IsRelativeRef(r) ==
  \A i \in 1..(FirstIn(r, {"/", "?", "#"}) - 1) : r[i] # ":"

(* C5: the url emitted for an anchor with a relative href is the RFC 3986  *)
(* resolution of the href against the base: the scheme, and the authority  *)
(* unless the href is scheme-relative, are the base's; a path-absolute     *)
(* href replaces the base's path; a fragment-only href keeps the base's    *)
(* path and query.                                                         *)
C5_RelativeResolution ==
  Returned =>
    LET Q == Qualifying(html, base_url)
    IN  \A i \in Q :
          IsRelativeRef(Href(html[i])) =>
            LET h == Href(html[i])
                u == links[Rank(Q, i)].url
            IN  /\ Rank(Q, i) <= Len(links)
                /\ u = Rfc_Resolve(base_url, h)
                /\ StartsWith(u, base_url.scheme \o <<":", "/", "/">>)
                /\ ~StartsWith(h, <<"/", "/">>) =>
                     StartsWith(u, base_url.scheme \o <<":", "/", "/">>
                                   \o Authority(base_url) \o <<"/">>)
                /\ (h # <<>> /\ h[1] = "#") =>
                     u = base_url.scheme \o <<":", "/", "/">> \o Authority(base_url)
                         \o PathString(base_url)
                         \o (IF IsSome(base_url.query)
                             THEN <<"?">> \o base_url.query[1] ELSE <<>>)
                         \o h

\* "https://example.com/page#section"
PAGE_SECTION == BASE_PAGE \o HREF_SECTION

(* The fragment-only href "#section" against https://example.com/page.     *)
C5_Witness ==
  /\ Returned
  /\ base_url = UrlParse(BASE_PAGE).url
  /\ Len(html) = 1
  /\ html[1].href = Some(HREF_SECTION)
  /\ Len(links) = 1
  /\ links[1].url = PAGE_SECTION

----------------------------------------------------------------------------
(* C6: an anchor without an href never produces a LinkInfo: every entry    *)
(* comes from an anchor that has one, there are no more entries than such  *)
(* anchors, and a document whose anchors all lack an href yields nothing.  *)
AnchorsWithHref(document) ==
  {i \in 1..Len(document) : document[i].tag = "a" /\ IsSome(document[i].href)}

C6_NoHrefNoLink ==
  Returned =>
    /\ Len(links) <= Cardinality(AnchorsWithHref(html))
    /\ \A k \in 1..Len(links) :
         \E i \in AnchorsWithHref(html) :
           /\ links[k].text = normalize_link_text(ElementText(html[i]))
           /\ links[k].url = to_string(resolve_href(Href(html[i]), base_url).url)
    /\ AnchorsWithHref(html) = {} => links = <<>>

(* An anchor without href before one that is emitted.                      *)
C6_Witness ==
  /\ Returned
  /\ Len(html) = 2
  /\ html[1].tag = "a"
  /\ html[1].href = None
  /\ html[1].text = << TEXT_NO_HREF >>
  /\ Len(links) = 1

(* C7: normalize_link_text is idempotent, and the text of every entry has  *)
(* no white space at either end, no tab or newline and no two spaces in a  *)
(* row; it is the non-white-space runs of the anchor's text, in order,     *)
(* with one space where the text had white space between two of them; an   *)
(* empty or all-white-space text gives the empty string.                   *)
NonWhiteSpaceAt(s) == {i \in 1..Len(s) : s[i] \notin WhiteSpace}

(* A run of non-white-space ends at i and another starts later.            *)
GapsBefore(s, i) ==
  {j \in NonWhiteSpaceAt(s) :
     j < i /\ j + 1 \notin NonWhiteSpaceAt(s)
           /\ \E n \in NonWhiteSpaceAt(s) : n > j}

(* Where character i of the text lands in the normalized text.             *)
NormalPosition(s, i) ==
  Cardinality({j \in NonWhiteSpaceAt(s) : j <= i}) + Cardinality(GapsBefore(s, i))

C7_NormalizedText ==
  Returned =>
    LET Q == Qualifying(html, base_url)
    IN  \A i \in Q :
          LET in == ElementText(html[i])
              t  == links[Rank(Q, i)].text
          IN  /\ normalize_link_text(t) = t
              /\ normalize_link_text(normalize_link_text(in)) = normalize_link_text(in)
              /\ t # <<>> => (t[1] \notin WhiteSpace /\ t[Len(t)] \notin WhiteSpace)
              /\ \A k \in 1..Len(t) : t[k] \notin {"\t", "\n"}
              /\ \A k \in 1..(Len(t) - 1) : ~(t[k] = " " /\ t[k + 1] = " ")
              /\ Len(t) = Cardinality(NonWhiteSpaceAt(in))
                          + Cardinality(GapsBefore(in, Len(in) + 1))
              /\ \A n \in NonWhiteSpaceAt(in) :
                   /\ t[NormalPosition(in, n)] = in[n]
                   /\ n \in GapsBefore(in, Len(in) + 1) =>
                        t[NormalPosition(in, n) + 1] = " "
              /\ NonWhiteSpaceAt(in) = {} => t = <<>>

\* "Link Two"
TEXT_LINK_TWO_NORMAL == <<"L","i","n","k"," ","T","w","o">>

(* The text "  Link \n Two  " becomes "Link Two".                          *)
C7_Witness ==
  /\ Returned
  /\ Len(html) = 1
  /\ html[1].text = << TEXT_LINK_TWO >>
  /\ Len(links) = 1
  /\ links[1].text = TEXT_LINK_TWO_NORMAL

(* C8: the url of every entry parses as an absolute URL without a base and *)
(* serializes back to itself; it is never the unresolved href of a         *)
(* relative reference.                                                     *)
C8_UrlAbsoluteCanonical ==
  Returned =>
    \A k \in 1..Len(links) :
      /\ UrlParse(links[k].url).ok
      /\ to_string(UrlParse(links[k].url).url) = links[k].url

(* An entry whose href was relative and one whose href was absolute but    *)
(* not in canonical form.                                                  *)
C8_Witness ==
  /\ Returned
  /\ Len(html) = 2
  /\ Len(links) = 2
  /\ ~UrlParse(Href(html[1])).ok
  /\ UrlParse(Href(html[2])).ok
  /\ links[2].url # Href(html[2])

----------------------------------------------------------------------------
(* fetch_links_internal.                                                   *)

Done == pc = "done"
Happened(name) == \E k \in 1..Len(trace) : trace[k].ev = name
Count(name) == Cardinality({k \in 1..Len(trace) : trace[k].ev = name})

(* parse, send, response, body, extract: the whole call, in order.         *)
FullTrace ==
  /\ Len(trace) = 5
  /\ trace[1] = Event("parse")
  /\ trace[2] = Event("send")
  /\ trace[3].ev = "response"
  /\ trace[4] = Event("body")
  /\ trace[5] = Event("extract")

(* C9: called with a string that is no absolute URL, fetch_links_internal  *)
(* returns Err("Invalid URL: ..") with no request sent and extract_links   *)
(* never run; no other outcome carries that message.                       *)
C9_InvalidUrlRejected ==
  /\ ~UrlParse(url).ok =>
       /\ pc \in {"start", "done"}
       /\ requests = 0
       /\ ~Happened("send")
       /\ ~Happened("extract")
       /\ links = <<>>
       /\ Done => result = Err("Invalid URL: ")
  /\ (Done /\ UrlParse(url).ok) => result.err # "Invalid URL: "

C9_Witness ==
  /\ Done
  /\ url = BAD_SCHEME_HREF
  /\ ~UrlParse(url).ok
  /\ result = Err("Invalid URL: ")
  /\ requests = 0

====
